---- MODULE Spec2Model ----
(***************************************************************************)
(* Model of the asynchronous HTTP client of src/src/lib.rs: the request    *)
(* builders, the response pipeline HttpClient::handle_response, the status *)
(* mapping From<StatusCode> for Status<T>, and the body codecs of          *)
(* src/src/body.rs.  The transport (hyper), the request builder of the     *)
(* http crate and the caller are the environment.  Bytes are their ASCII   *)
(* codes: 110 117 108 108 is "null", 48..57 are the digits, 32 is a space. *)
(***************************************************************************)
EXTENDS Integers, Sequences, FiniteSets, TLC

\* ------------------------------------------------------------------ bounds
\* the longest response body, in chunks
MaxChunks == 3

\* the longest TextPlain value, in chars
MaxTextLen == 2

\* the longest response body of the concurrent specification, in chunks
MaxConcChunks == 2

\* ------------------------------------------------------- program constants
OK == 200
CREATED == 201
ACCEPTED == 202
NOT_FOUND == 404
INTERNAL_SERVER_ERROR == 500
NOT_IMPLEMENTED == 501

\* ------------------------------------------------------------ input domains
\* the requests of the sequential specification
Reqs == {1}

\* status codes a response may carry: the six the code names and others
Statuses == {OK, CREATED, ACCEPTED, 204, NOT_FOUND, 418, INTERNAL_SERVER_ERROR, NOT_IMPLEMENTED}

\* chunks a body stream may yield: pieces of "null", digits, a space, nothing
Chunks == { <<>>, <<110, 117>>, <<108, 108>>, <<49>>, <<48>>, <<32>> }

\* the response types R a caller may ask for
RTypes == {"unit", "u64"}

Methods == {"GET", "POST"}

Uris == {"http://127.0.0.1:58921/tasks"}

\* descriptions of the transport's errors (hyper::Error::description)
TransportMsgs == {"error trying to connect", "connection closed"}

\* descriptions of the http crate's builder errors
BuilderMsgs == {"invalid uri"}

\* values handed to request(): the unit value, numbers, and a value whose
\* Serialize implementation fails (a map with a non-string key)
UnitVal == [t |-> "unit", n |-> 0, s |-> <<>>]

U64Val(n) == [t |-> "u64", n |-> n, s |-> <<>>]

BadVal == [t |-> "unserializable", n |-> 0, s |-> <<>>]

NoVal == [t |-> "none", n |-> 0, s |-> <<>>]

\* a String: its chars, as code points
TextVal(chars) == [t |-> "text", n |-> 0, s |-> chars]

Values == {UnitVal, U64Val(10), BadVal}

\* chars of TextPlain values: of 1, 2, 3 and 4 UTF-8 bytes
Chars == {65, 233, 8364, 128512}

\* numbers wrapped in Json<u64>
Numbers == {0, 7, 10, 255}

\* byte strings handed to request_raw()
RawValues == { <<49, 48>> }

\* bodies: at most max chunks
RECURSIVE SeqsUpTo(_, _)
SeqsUpTo(S, n) ==
    IF n = 0 THEN { <<>> }
    ELSE LET shorter == SeqsUpTo(S, n - 1)
         IN  shorter \cup { Append(s, x) : s \in { t \in shorter : Len(t) = n - 1 }, x \in S }

Bodies == SeqsUpTo(Chunks, MaxChunks)

\* --------------------------------------------------------------- results
Res(kind, v) == [kind |-> kind, v |-> v]

Ok(v) == Res("Ok", v)

Err(e) == Res("Err", e)

\* HError, lib.rs:27-31
HError(tag, msg) == [tag |-> tag, msg |-> msg]

\* Status<T>, lib.rs:90-108
Status(tag, val, code) == [tag |-> tag, val |-> val, code |-> code]

\* ------------------------------------------------------------ the JSON codec
\* JSON whitespace: space, line feed, tab, carriage return
IsWs(b) == b \in {32, 10, 9, 13}

IsDigit(b) == b \in 48..57

\* the first position at or after i that holds no whitespace (Len(s)+1: none)
RECURSIVE SkipWs(_, _)
SkipWs(s, i) ==
    IF i <= Len(s) /\ IsWs(s[i]) THEN SkipWs(s, i + 1) ELSE i

\* the first position at or after i that holds no digit
RECURSIVE SkipDigits(_, _)
SkipDigits(s, i) ==
    IF i <= Len(s) /\ IsDigit(s[i]) THEN SkipDigits(s, i + 1) ELSE i

\* the number written by the digits s[i..j-1]
RECURSIVE DigitsValue(_, _, _)
DigitsValue(s, i, j) ==
    IF j <= i THEN 0 ELSE DigitsValue(s, i, j - 1) * 10 + (s[j - 1] - 48)

\* the decimal digits of n
RECURSIVE ToDigits(_)
ToDigits(n) ==
    IF n < 10 THEN << 48 + n >> ELSE Append(ToDigits(n \div 10), 48 + (n % 10))

\* Deserializer::end: only whitespace may follow the value
AtEnd(s, i) == SkipWs(s, i) > Len(s)

JsonError == "JSON error"

\* serde_json::from_slice::<()>: the literal null between whitespace
ParseUnit(s) ==
    LET i == SkipWs(s, 1)
    IN  IF i + 3 <= Len(s) /\ SubSeq(s, i, i + 3) = <<110, 117, 108, 108>> /\ AtEnd(s, i + 4)
        THEN Ok(UnitVal)
        ELSE Err(JsonError)

\* serde_json::from_slice::<u64>: 0, or a digit 1-9 followed by digits,
\* between whitespace; a digit after a leading 0 is an invalid number
ParseU64(s) ==
    LET i == SkipWs(s, 1)
        j == SkipDigits(s, i)
    IN  IF i > Len(s) \/ ~IsDigit(s[i]) THEN Err(JsonError)
        ELSE IF s[i] = 48 /\ j > i + 1 THEN Err(JsonError)
        ELSE IF AtEnd(s, j) THEN Ok(U64Val(DigitsValue(s, i, j)))
        ELSE Err(JsonError)

\* serde_json::from_slice::<R>(bytes), as called at lib.rs:220 and body.rs:52
from_slice(rt, s) ==
    IF rt = "unit" THEN ParseUnit(s) ELSE ParseU64(s)

\* serde_json::to_vec(value), as called at lib.rs:164 and body.rs:68
to_vec(value) ==
    IF value.t = "unit" THEN Ok(<<110, 117, 108, 108>>)
    ELSE IF value.t = "u64" THEN Ok(ToDigits(value.n))
    ELSE Err(JsonError)

\* ------------------------------------------------------------------ UTF-8
\* String::into_bytes: the UTF-8 bytes of a String's chars
Utf8Char(cp) ==
    IF cp < 128 THEN << cp >>
    ELSE IF cp < 2048 THEN << 192 + (cp \div 64), 128 + (cp % 64) >>
    ELSE IF cp < 65536 THEN << 224 + (cp \div 4096), 128 + ((cp \div 64) % 64), 128 + (cp % 64) >>
    ELSE << 240 + (cp \div 262144), 128 + ((cp \div 4096) % 64), 128 + ((cp \div 64) % 64), 128 + (cp % 64) >>

RECURSIVE into_bytes(_)
into_bytes(chars) ==
    IF chars = <<>> THEN <<>> ELSE Utf8Char(Head(chars)) \o into_bytes(Tail(chars))

\* byte i of b is a continuation byte within lo..hi
Cont(b, i, lo, hi) == i <= Len(b) /\ b[i] \in lo..hi

\* the length of the well-formed UTF-8 sequence that starts at b[i], 0: none
Utf8Len(b, i) ==
    LET c == b[i]
    IN  IF c < 128 THEN 1
        ELSE IF c \in 194..223 /\ Cont(b, i + 1, 128, 191) THEN 2
        ELSE IF /\ c \in 224..239
                /\ Cont(b, i + 1, IF c = 224 THEN 160 ELSE 128, IF c = 237 THEN 159 ELSE 191)
                /\ Cont(b, i + 2, 128, 191) THEN 3
        ELSE IF /\ c \in 240..244
                /\ Cont(b, i + 1, IF c = 240 THEN 144 ELSE 128, IF c = 244 THEN 143 ELSE 191)
                /\ Cont(b, i + 2, 128, 191)
                /\ Cont(b, i + 3, 128, 191) THEN 4
        ELSE 0

\* the char a well-formed sequence of n bytes at b[i] encodes
Utf8Decode(b, i, n) ==
    IF n = 1 THEN b[i]
    ELSE IF n = 2 THEN (b[i] - 192) * 64 + (b[i + 1] - 128)
    ELSE IF n = 3 THEN (b[i] - 224) * 4096 + (b[i + 1] - 128) * 64 + (b[i + 2] - 128)
    ELSE (b[i] - 240) * 262144 + (b[i + 1] - 128) * 4096 + (b[i + 2] - 128) * 64 + (b[i + 3] - 128)

Utf8Error == "invalid utf-8 sequence"

\* String::from_utf8 from position i on, with the chars read so far
RECURSIVE from_utf8_at(_, _, _)
from_utf8_at(b, i, chars) ==
    IF i > Len(b) THEN Ok(chars)
    ELSE LET n == Utf8Len(b, i)
         IN  IF n = 0 THEN Err(Utf8Error)
             ELSE from_utf8_at(b, i + n, Append(chars, Utf8Decode(b, i, n)))

\* String::from_utf8
from_utf8(b) == from_utf8_at(b, 1, <<>>)

\* ---------------------------------------------------- body.rs: the codecs
\* the body types: (), Json<V> and TextPlain
UnitBody == [ty |-> "Unit", v |-> UnitVal]

JsonBody(v) == [ty |-> "Json", v |-> v]

TextPlainBody(chars) == [ty |-> "TextPlain", v |-> TextVal(chars)]

\* RequestBody::MIME
MIME(b) == IF b.ty = "Json" THEN "application/json" ELSE "text/plain"

\* to_bytes with the unit value encoded as JSON, as build_request encodes it
to_bytesUnitAsJson(b) ==
    IF b.ty = "Unit" THEN to_vec(UnitVal)
    ELSE IF b.ty = "Json"
    THEN LET j == to_vec(b.v)
         IN  IF j.kind = "Ok" THEN j ELSE Err(HError("InvalidDataFormat", j.v))
    ELSE Ok(into_bytes(b.v.s))

\* RequestBody::to_bytes of (), Json<V> and TextPlain
to_bytes(b) ==
    IF b.ty = "Unit" THEN Ok(<<>>)
    ELSE IF b.ty = "Json"
    THEN LET j == to_vec(b.v)
         IN  IF j.kind = "Ok" THEN j ELSE Err(HError("InvalidDataFormat", j.v))
    ELSE Ok(into_bytes(b.v.s))

\* impl ResponseBody for (): from_bytes ignores status and body
from_bytes_unit(status, body) == Ok(UnitVal)

\* decode_json: a JSON error becomes InvalidDataFormat
decode_json(rt, slice) ==
    LET r == from_slice(rt, slice)
    IN  IF r.kind = "Ok" THEN r ELSE Err(HError("InvalidDataFormat", "invalid data format: " \o r.v))

\* ResponseBody::from_bytes of (), Json<V> (V of type vt) and TextPlain
from_bytes(ty, vt, status, body) ==
    IF ty = "Unit" THEN LET u == from_bytes_unit(status, body) IN Ok([ty |-> "Unit", v |-> u.v])
    ELSE IF ty = "Json"
    THEN LET j == decode_json(vt, body)
         IN  IF j.kind = "Ok" THEN Ok(JsonBody(j.v)) ELSE j
    ELSE LET t == from_utf8(body)
         IN  IF t.kind = "Ok" THEN Ok(TextPlainBody(t.v)) ELSE Err(HError("InvalidDataFormat", t.v))

\* the values of the body types
BodyValues ==
    {UnitBody, JsonBody(UnitVal), JsonBody(BadVal)}
        \cup { JsonBody(U64Val(n)) : n \in Numbers }
        \cup { TextPlainBody(cs) : cs \in SeqsUpTo(Chars, MaxTextLen) }

\* -------------------------------------------------- lib.rs: error conversion
\* impl From<serde_json::Error> for HError
FromSerdeError(e) == HError("InvalidHttpResponse", e)

\* ------------------------------------------------- lib.rs: status mapping
\* a copy-paste slip in the match: 202 mapped to Created
FromStatusCodeSwapped(s) ==
    IF s = CREATED \/ s = ACCEPTED THEN Status("Created", NoVal, 0)
    ELSE IF s = NOT_FOUND THEN Status("NotFound", NoVal, 0)
    ELSE IF s = INTERNAL_SERVER_ERROR THEN Status("InternalServerError", NoVal, 0)
    ELSE IF s = NOT_IMPLEMENTED THEN Status("NotImplemented", NoVal, 0)
    ELSE Status("Unregistered", NoVal, s)

\* impl From<StatusCode> for Status<T>
FromStatusCode(s) ==
    IF s = CREATED THEN Status("Created", NoVal, 0)
    ELSE IF s = ACCEPTED THEN Status("Accepted", NoVal, 0)
    ELSE IF s = NOT_FOUND THEN Status("NotFound", NoVal, 0)
    ELSE IF s = INTERNAL_SERVER_ERROR THEN Status("InternalServerError", NoVal, 0)
    ELSE IF s = NOT_IMPLEMENTED THEN Status("NotImplemented", NoVal, 0)
    ELSE Status("Unregistered", NoVal, s)

\* Status::Ok(json)
StatusOk(v) == Status("Ok", v, 0)

\* the bytes of a sequence of chunks, in order
RECURSIVE Concat(_)
Concat(cs) ==
    IF cs = <<>> THEN <<>> ELSE Head(cs) \o Concat(Tail(cs))

\* ---------------------------------------------------------------- the state
VARIABLES
    client,     \* HttpClient.client: the transport handle
    pc,         \* per request: idle, returned_err, panicked, submitted, buffering, done,
                \* dropped
    call,       \* per request: the arguments of the public operation called
    ret,        \* per request: what the public operation returned synchronously
    req,        \* per request: the Request that was built
    sent,       \* per request: how often the transport was handed the request
    resp,       \* per request: what the transport resolved to
    nread,      \* per request: items of the body stream the pipeline has taken
    acc,        \* per request: the accumulator of the fold over the body stream
    decoded,    \* per request: the buffers handed to serde_json::from_slice
    delivered,  \* per request: the results the outcome future resolved with
    held,       \* per request: what of the transport the outcome future owns:
                \* none, response_future, body
    cpc,        \* codec exercise: off, made, encoded, decoded
    cval,       \* codec exercise: the body value
    cstatus,    \* codec exercise: the status handed to from_bytes
    cbytes,     \* codec exercise: the result of to_bytes
    cout        \* codec exercise: the result of from_bytes

codec == << cpc, cval, cstatus, cbytes, cout >>

pipeline == << client, pc, call, ret, req, sent, resp, nread, acc, decoded, delivered, held >>

vars == << client, pc, call, ret, req, sent, resp, nread, acc, decoded, delivered, held,
           cpc, cval, cstatus, cbytes, cout >>

NoCall == [op |-> "none", method |-> "none", uri |-> "none", value |-> NoVal, raw |-> <<>>, rt |-> "none",
           built |-> Res("none", "none")]

NoReq == [method |-> "none", uri |-> "none", content_type |-> "none", body |-> <<>>]

NoRet == Res("none", "none")

\* errAt = k > 0: the k-th item of the body stream is a read error
NoResp == [kind |-> "none", status |-> 0, body |-> <<>>, errAt |-> 0, msg |-> "none"]

Init ==
    /\ client = [connector |-> "HttpConnector"]
    /\ pc = [r \in Reqs |-> "idle"]
    /\ call = [r \in Reqs |-> NoCall]
    /\ ret = [r \in Reqs |-> NoRet]
    /\ req = [r \in Reqs |-> NoReq]
    /\ sent = [r \in Reqs |-> 0]
    /\ resp = [r \in Reqs |-> NoResp]
    /\ nread = [r \in Reqs |-> 0]
    /\ acc = [r \in Reqs |-> <<>>]
    /\ decoded = [r \in Reqs |-> <<>>]
    /\ delivered = [r \in Reqs |-> <<>>]
    /\ held = [r \in Reqs |-> "none"]
    /\ cpc = "off" /\ cval = UnitBody /\ cstatus = 0 /\ cbytes = NoRet /\ cout = NoRet

\* --------------------------------------------------- lib.rs: request builders
\* the builder's error converted as From<http::Error> converts it
AssembleRequestAsResponseErr(method, uri, body, built) ==
    IF built.kind = "Ok"
    THEN Ok([method |-> method, uri |-> uri, content_type |-> "application/json", body |-> body])
    ELSE Err(HError("InvalidHttpResponse", built.v))

\* Request::builder().uri().method().header().body(): built is the result of
\* the http crate's builder, Ok or Err(description)
AssembleRequest(method, uri, body, built) ==
    IF built.kind = "Ok"
    THEN Ok([method |-> method, uri |-> uri, content_type |-> "application/json", body |-> body])
    ELSE Err(HError("InvalidHttpRequest", built.v))

\* HttpClient::build_request
build_request(method, uri, value, built) ==
    LET body == to_vec(value)
    IN  IF body.kind = "Err" THEN Err(FromSerdeError(body.v))
        ELSE AssembleRequest(method, uri, body.v, built)

\* HttpClient::build_request_raw
build_request_raw(method, uri, raw, built) ==
    AssembleRequest(method, uri, raw, built)

BuilderResults == { Ok("built") } \cup { Err(m) : m \in BuilderMsgs }

\* the inputs the environment draws from: the caller's arguments, the http
\* builder's results and the transport's answers
FullDom ==
    [uris |-> Uris, rts |-> RTypes, builts |-> BuilderResults, methods |-> Methods,
     values |-> Values, raws |-> RawValues, statuses |-> Statuses, bodies |-> Bodies,
     msgs |-> TransportMsgs]

\* the part of handle_response that runs in the caller: client.request(req)
Submit(r, c, request) ==
    /\ pc' = [pc EXCEPT ![r] = "submitted"]
    /\ call' = [call EXCEPT ![r] = c]
    /\ req' = [req EXCEPT ![r] = request]
    /\ sent' = [sent EXCEPT ![r] = @ + 1]
    /\ held' = [held EXCEPT ![r] = "response_future"]

\* a public operation that returns without a future
Refuse(r, c, how, result) ==
    /\ pc' = [pc EXCEPT ![r] = how]
    /\ call' = [call EXCEPT ![r] = c]
    /\ ret' = [ret EXCEPT ![r] = result]
    /\ UNCHANGED << req, sent, held >>

\* HttpClient::get, with inputs from d
GetIn(r, d) ==
    /\ pc[r] = "idle"
    /\ \E uri \in d.uris, rt \in d.rts, built \in d.builts :
         LET c == [op |-> "get", method |-> "GET", uri |-> uri, value |-> UnitVal, raw |-> <<>>, rt |-> rt,
                   built |-> built]
             b == build_request("GET", uri, UnitVal, built)
         IN  IF b.kind = "Ok"
             THEN Submit(r, c, b.v) /\ ret' = [ret EXCEPT ![r] = Res("future", "future")]
             ELSE Refuse(r, c, "panicked", Res("panic", "HttpClient::build_request failed.."))
    /\ UNCHANGED << client, resp, nread, acc, decoded, delivered >>
    /\ UNCHANGED codec

\* HttpClient::get
Get(r) == GetIn(r, FullDom)

\* HttpClient::request, with inputs from d
RequestIn(r, d) ==
    /\ pc[r] = "idle"
    /\ \E method \in d.methods, uri \in d.uris, value \in d.values, rt \in d.rts, built \in d.builts :
         LET c == [op |-> "request", method |-> method, uri |-> uri, value |-> value, raw |-> <<>>, rt |-> rt,
                   built |-> built]
             b == build_request(method, uri, value, built)
         IN  IF b.kind = "Ok"
             THEN Submit(r, c, b.v) /\ ret' = [ret EXCEPT ![r] = Ok("future")]
             ELSE Refuse(r, c, "returned_err", Err(b.v))
    /\ UNCHANGED << client, resp, nread, acc, decoded, delivered >>
    /\ UNCHANGED codec

\* HttpClient::request
Request(r) == RequestIn(r, FullDom)

\* HttpClient::request_raw, with inputs from d
RequestRawIn(r, d) ==
    /\ pc[r] = "idle"
    /\ \E method \in d.methods, uri \in d.uris, raw \in d.raws, rt \in d.rts, built \in d.builts :
         LET c == [op |-> "request_raw", method |-> method, uri |-> uri, value |-> NoVal, raw |-> raw, rt |-> rt,
                   built |-> built]
             b == build_request_raw(method, uri, raw, built)
         IN  IF b.kind = "Ok"
             THEN Submit(r, c, b.v) /\ ret' = [ret EXCEPT ![r] = Ok("future")]
             ELSE Refuse(r, c, "returned_err", Err(b.v))
    /\ UNCHANGED << client, resp, nread, acc, decoded, delivered >>
    /\ UNCHANGED codec

\* HttpClient::request_raw
RequestRaw(r) == RequestRawIn(r, FullDom)

\* ------------------------------------------- lib.rs: HttpClient::handle_response
\* the transport's description lost
MapTransportErrNoMsg(msg) == HError("InvalidHttpResponse", "transport error")

\* the transport's error becomes InvalidHttpResponse with its description
MapTransportErr(msg) == HError("InvalidHttpResponse", msg)

\* map_err over the body stream
MapStreamErr(msg) == HError("InvalidHttpResponse", msg)

\* the chunk put in front of the buffer
FoldStepPrepend(a, chunk) == chunk \o a

\* the closure of fold: acc.extend_from_slice(&*chunk)
FoldStep(a, chunk) == a \o chunk

\* the closure of and_then: decode the whole buffer as R
DecodeBody(rt, chunk) ==
    LET j == from_slice(rt, chunk)
    IN  IF j.kind = "Ok" THEN Ok(StatusOk(j.v))
        ELSE Err(HError("InvalidHttpResponse", j.v))

\* every 2xx status treated as success
ReadsBody2xx(status) == status \div 100 = 2

\* the body buffered and decoded for every status
ReadsBodyAlways(status) == TRUE

\* match r.status(): only 200 reads the body
ReadsBody(status) == status = OK

\* the request's future resolves and lets go of what it owns
Complete(r, result) ==
    /\ pc' = [pc EXCEPT ![r] = "done"]
    /\ delivered' = [delivered EXCEPT ![r] = Append(@, result)]
    /\ held' = [held EXCEPT ![r] = "none"]

\* a transport error answered by handing the request to the transport again
TransportErrorRetriesIn(r, d) ==
    /\ pc[r] = "submitted"
    /\ \E m \in d.msgs :
         IF sent[r] < 2
         THEN /\ sent' = [sent EXCEPT ![r] = @ + 1]
              /\ UNCHANGED << resp, pc, delivered, held >>
         ELSE /\ resp' = [resp EXCEPT ![r] = [NoResp EXCEPT !.kind = "error", !.msg = m]]
              /\ Complete(r, Err(MapTransportErr(m)))
              /\ UNCHANGED sent
    /\ UNCHANGED << client, call, ret, req, nread, acc, decoded >>
    /\ UNCHANGED codec

\* the transport resolves with an error, one of d
TransportErrorIn(r, d) ==
    /\ pc[r] = "submitted"
    /\ \E m \in d.msgs :
         /\ resp' = [resp EXCEPT ![r] = [NoResp EXCEPT !.kind = "error", !.msg = m]]
         /\ Complete(r, Err(MapTransportErr(m)))
    /\ UNCHANGED << client, call, ret, req, sent, nread, acc, decoded >>
    /\ UNCHANGED codec

\* the transport resolves with an error
TransportError(r) == TransportErrorIn(r, FullDom)

\* the transport resolves with a response of d: a status and a body stream
TransportResponseIn(r, d) ==
    /\ pc[r] = "submitted"
    /\ \E status \in d.statuses, body \in d.bodies, m \in d.msgs :
       \E errAt \in 0..(Len(body) + 1) :
         /\ resp' = [resp EXCEPT ![r] = [kind |-> "response", status |-> status, body |-> body,
                                         errAt |-> errAt, msg |-> IF errAt = 0 THEN "none" ELSE m]]
         /\ IF ReadsBody(status)
            THEN /\ pc' = [pc EXCEPT ![r] = "buffering"]
                 /\ held' = [held EXCEPT ![r] = "body"]
                 /\ UNCHANGED delivered
            ELSE Complete(r, Ok(FromStatusCode(status)))
    /\ UNCHANGED << client, call, ret, req, sent, nread, acc, decoded >>
    /\ UNCHANGED codec

\* the transport resolves with a response
TransportResponse(r) == TransportResponseIn(r, FullDom)

\* a chunk appended to the buffer of every request that is buffering
BodyChunkShared(r) ==
    /\ pc[r] = "buffering"
    /\ nread[r] < Len(resp[r].body)
    /\ resp[r].errAt # nread[r] + 1
    /\ nread' = [nread EXCEPT ![r] = @ + 1]
    /\ acc' = [q \in DOMAIN acc |->
                 IF pc[q] = "buffering" THEN FoldStep(acc[q], resp[r].body[nread[r] + 1]) ELSE acc[q]]
    /\ UNCHANGED << client, pc, call, ret, req, sent, resp, decoded, delivered, held >>
    /\ UNCHANGED codec

\* the body stream yields a chunk
BodyChunk(r) ==
    /\ pc[r] = "buffering"
    /\ nread[r] < Len(resp[r].body)
    /\ resp[r].errAt # nread[r] + 1
    /\ nread' = [nread EXCEPT ![r] = @ + 1]
    /\ acc' = [acc EXCEPT ![r] = FoldStep(@, resp[r].body[nread[r] + 1])]
    /\ UNCHANGED << client, pc, call, ret, req, sent, resp, decoded, delivered, held >>
    /\ UNCHANGED codec

\* a read error that ends the stream early and decodes what was buffered
BodyErrorDecodesPartial(r) ==
    /\ pc[r] = "buffering"
    /\ resp[r].errAt = nread[r] + 1
    /\ nread' = [nread EXCEPT ![r] = @ + 1]
    /\ decoded' = [decoded EXCEPT ![r] = Append(@, acc[r])]
    /\ acc' = [acc EXCEPT ![r] = <<>>]
    /\ Complete(r, DecodeBody(call[r].rt, acc[r]))
    /\ UNCHANGED << client, call, ret, req, sent, resp >>
    /\ UNCHANGED codec

\* the body stream yields a read error: the fold and its buffer are dropped
BodyError(r) ==
    /\ pc[r] = "buffering"
    /\ resp[r].errAt = nread[r] + 1
    /\ nread' = [nread EXCEPT ![r] = @ + 1]
    /\ acc' = [acc EXCEPT ![r] = <<>>]
    /\ Complete(r, Err(MapStreamErr(resp[r].msg)))
    /\ UNCHANGED << client, call, ret, req, sent, resp, decoded >>
    /\ UNCHANGED codec

\* the body stream ends, and the future resolves a second time
BodyEndTwice(r) ==
    /\ pc[r] = "buffering"
    /\ nread[r] = Len(resp[r].body)
    /\ resp[r].errAt = 0
    /\ decoded' = [decoded EXCEPT ![r] = Append(@, acc[r])]
    /\ acc' = [acc EXCEPT ![r] = <<>>]
    /\ pc' = [pc EXCEPT ![r] = "done"]
    /\ held' = [held EXCEPT ![r] = "none"]
    /\ delivered' = [delivered EXCEPT ![r] =
                        Append(Append(@, Ok(FromStatusCode(resp[r].status))), DecodeBody(call[r].rt, acc[r]))]
    /\ UNCHANGED << client, call, ret, req, sent, resp, nread >>
    /\ UNCHANGED codec

\* the buffer decoded as soon as a chunk is in, before the stream has ended
BodyEndEarly(r) ==
    /\ pc[r] = "buffering"
    /\ nread[r] >= 1 \/ nread[r] = Len(resp[r].body)
    /\ resp[r].errAt = 0
    /\ decoded' = [decoded EXCEPT ![r] = Append(@, acc[r])]
    /\ acc' = [acc EXCEPT ![r] = <<>>]
    /\ Complete(r, DecodeBody(call[r].rt, acc[r]))
    /\ UNCHANGED << client, call, ret, req, sent, resp, nread >>
    /\ UNCHANGED codec

\* the body stream ends: the buffer moves into the decoder
BodyEnd(r) ==
    /\ pc[r] = "buffering"
    /\ nread[r] = Len(resp[r].body)
    /\ resp[r].errAt = 0
    /\ decoded' = [decoded EXCEPT ![r] = Append(@, acc[r])]
    /\ acc' = [acc EXCEPT ![r] = <<>>]
    /\ Complete(r, DecodeBody(call[r].rt, acc[r]))
    /\ UNCHANGED << client, call, ret, req, sent, resp, nread >>
    /\ UNCHANGED codec

\* the outcome future dropped, but the body stream kept alive
DropLeaks(r) ==
    /\ pc[r] \in {"submitted", "buffering"}
    /\ pc' = [pc EXCEPT ![r] = "dropped"]
    /\ acc' = [acc EXCEPT ![r] = <<>>]
    /\ held' = [held EXCEPT ![r] = IF pc[r] = "buffering" THEN "body" ELSE "none"]
    /\ UNCHANGED << client, call, ret, req, sent, resp, nread, decoded, delivered >>
    /\ UNCHANGED codec

\* the caller drops the outcome future before it resolves: everything the
\* future owns (the transport's future or the body stream, the buffer) goes
Drop(r) ==
    /\ pc[r] \in {"submitted", "buffering"}
    /\ pc' = [pc EXCEPT ![r] = "dropped"]
    /\ acc' = [acc EXCEPT ![r] = <<>>]
    /\ held' = [held EXCEPT ![r] = "none"]
    /\ UNCHANGED << client, call, ret, req, sent, resp, nread, decoded, delivered >>
    /\ UNCHANGED codec

Next ==
    \E r \in Reqs :
        \/ Get(r)
        \/ Request(r)
        \/ RequestRaw(r)
        \/ TransportError(r)
        \/ TransportResponse(r)
        \/ BodyChunk(r)
        \/ BodyError(r)
        \/ BodyEnd(r)
        \/ Drop(r)

Spec == Init /\ [][Next]_vars

\* ------------------------------------- lib.rs: two requests on one HttpClient
\* the requests of the concurrent specification
ConcReqs == {1, 2}

\* their inputs: every operation, a response of status 200 or 404 whose body
\* is made of the digits 1 and 0, a transport error
ConcDom ==
    [uris |-> Uris, rts |-> {"u64"}, builts |-> {Ok("built")}, methods |-> {"POST"},
     values |-> {U64Val(10)}, raws |-> RawValues, statuses |-> {OK, NOT_FOUND},
     bodies |-> SeqsUpTo({<<49>>, <<48>>}, MaxConcChunks),
     msgs |-> {"connection closed"}]

InitConc ==
    /\ client = [connector |-> "HttpConnector"]
    /\ pc = [r \in ConcReqs |-> "idle"]
    /\ call = [r \in ConcReqs |-> NoCall]
    /\ ret = [r \in ConcReqs |-> NoRet]
    /\ req = [r \in ConcReqs |-> NoReq]
    /\ sent = [r \in ConcReqs |-> 0]
    /\ resp = [r \in ConcReqs |-> NoResp]
    /\ nread = [r \in ConcReqs |-> 0]
    /\ acc = [r \in ConcReqs |-> <<>>]
    /\ decoded = [r \in ConcReqs |-> <<>>]
    /\ delivered = [r \in ConcReqs |-> <<>>]
    /\ held = [r \in ConcReqs |-> "none"]
    /\ cpc = "off" /\ cval = UnitBody /\ cstatus = 0 /\ cbytes = NoRet /\ cout = NoRet

NextConc ==
    \E r \in ConcReqs :
        \/ GetIn(r, ConcDom)
        \/ RequestIn(r, ConcDom)
        \/ RequestRawIn(r, ConcDom)
        \/ TransportErrorIn(r, ConcDom)
        \/ TransportResponseIn(r, ConcDom)
        \/ BodyChunk(r)
        \/ BodyError(r)
        \/ BodyEnd(r)
        \/ Drop(r)

SpecConc == InitConc /\ [][NextConc]_vars

\* ------------------------------------------------ body.rs: the codec exercise
InitCodec ==
    /\ client = [connector |-> "HttpConnector"]
    /\ pc = [r \in Reqs |-> "idle"]
    /\ call = [r \in Reqs |-> NoCall]
    /\ ret = [r \in Reqs |-> NoRet]
    /\ req = [r \in Reqs |-> NoReq]
    /\ sent = [r \in Reqs |-> 0]
    /\ resp = [r \in Reqs |-> NoResp]
    /\ nread = [r \in Reqs |-> 0]
    /\ acc = [r \in Reqs |-> <<>>]
    /\ decoded = [r \in Reqs |-> <<>>]
    /\ delivered = [r \in Reqs |-> <<>>]
    /\ held = [r \in Reqs |-> "none"]
    /\ cpc = "made"
    /\ cval \in BodyValues
    /\ cstatus \in Statuses
    /\ cbytes = NoRet
    /\ cout = NoRet

\* RequestBody::to_bytes applied to the value
ToBytes ==
    /\ cpc = "made"
    /\ cbytes' = to_bytes(cval)
    /\ cpc' = "encoded"
    /\ UNCHANGED << cval, cstatus, cout >>
    /\ UNCHANGED pipeline

\* ResponseBody::from_bytes of the value's type applied to the bytes
FromBytes ==
    /\ cpc = "encoded"
    /\ cbytes.kind = "Ok"
    /\ cout' = from_bytes(cval.ty, cval.v.t, cstatus, cbytes.v)
    /\ cpc' = "decoded"
    /\ UNCHANGED << cval, cstatus, cbytes >>
    /\ UNCHANGED pipeline

NextCodec == ToBytes \/ FromBytes

SpecCodec == InitCodec /\ [][NextCodec]_vars

\* =================================================================== claims
Responded(r) == resp[r].kind = "response"

\* the body stream of r ends without a read error
CleanStream(r) == Responded(r) /\ resp[r].errAt = 0

\* all the bytes of r's response body
WholeBody(r) == Concat(resp[r].body)

NamedStatuses == {CREATED, ACCEPTED, NOT_FOUND, INTERNAL_SERVER_ERROR, NOT_IMPLEMENTED}

NameOf(status) ==
    CASE status = 201 -> "Created"
      [] status = 202 -> "Accepted"
      [] status = 404 -> "NotFound"
      [] status = 500 -> "InternalServerError"
      [] status = 501 -> "NotImplemented"

\* C1: a response with status 201, 202, 404, 500 or 501 completes with the
\* outcome Created, Accepted, NotFound, InternalServerError or NotImplemented,
\* whatever its body, and the decoder is never invoked on that request.
C1_NamedOutcome ==
    \A r \in Reqs :
        (Responded(r) /\ resp[r].status \in NamedStatuses) =>
            /\ pc[r] = "done"
            /\ delivered[r] = << Ok(Status(NameOf(resp[r].status), NoVal, 0)) >>
            /\ decoded[r] = <<>>

\* C1 witness: a 404 whose body holds bytes has completed
C1_Witness ==
    \E r \in Reqs :
        /\ Responded(r) /\ resp[r].status = 404 /\ WholeBody(r) # <<>>
        /\ pc[r] = "done" /\ Len(delivered[r]) = 1

\* C2: a response whose status c is none of 200, 201, 202, 404, 500, 501
\* completes with Unregistered(c), never with a decoded value.
C2_Unregistered ==
    \A r \in Reqs :
        (Responded(r) /\ resp[r].status \notin (NamedStatuses \cup {200})) =>
            /\ pc[r] = "done"
            /\ delivered[r] = << Ok(Status("Unregistered", NoVal, resp[r].status)) >>
            /\ decoded[r] = <<>>

\* C2 witness: a 204 whose body is the JSON text of the requested type
C2_Witness ==
    \E r \in Reqs :
        /\ Responded(r) /\ resp[r].status = 204 /\ pc[r] = "done"
        /\ from_slice(call[r].rt, WholeBody(r)).kind = "Ok"

\* C3 (as claimed): a 200 whose whole body does not decode as the requested
\* type completes with the error InvalidDataFormat.
C3_AsClaimed ==
    \A r \in Reqs :
        (pc[r] = "done" /\ CleanStream(r) /\ resp[r].status = 200
            /\ from_slice(call[r].rt, WholeBody(r)).kind = "Err") =>
            /\ Len(delivered[r]) = 1
            /\ delivered[r][1].kind = "Err"
            /\ delivered[r][1].v.tag = "InvalidDataFormat"

\* C4: for a 200 the decoder gets exactly the chunks' bytes in arrival order,
\* and the outcome is Ok(v) with v the value the whole body decodes to.
C4_WholeBodyDecoded ==
    \A r \in Reqs :
        /\ (pc[r] = "buffering") =>
              acc[r] = Concat(SubSeq(resp[r].body, 1, nread[r]))
        /\ (pc[r] = "done" /\ CleanStream(r) /\ resp[r].status = 200) =>
              /\ decoded[r] = << WholeBody(r) >>
              /\ LET direct == from_slice(call[r].rt, WholeBody(r))
                 IN  direct.kind = "Ok" => delivered[r] = << Ok(Status("Ok", direct.v, 0)) >>

\* C4 witness: a body of two or more chunks that hold bytes was decoded
C4_Witness ==
    \E r \in Reqs :
        /\ pc[r] = "done" /\ CleanStream(r) /\ resp[r].status = 200
        /\ Cardinality({ i \in 1..Len(resp[r].body) : resp[r].body[i] # <<>> }) >= 2
        /\ Len(delivered[r]) = 1 /\ delivered[r][1].kind = "Ok"

\* the pipeline can take the next item of r's body stream
CanPoll(r) == ENABLED (BodyChunk(r) \/ BodyError(r) \/ BodyEnd(r))

\* C5: a request whose transport resolves completes exactly once, with an
\* Outcome or an error: never two results, never none.
C5_ExactlyOne ==
    \A r \in Reqs :
        /\ Len(delivered[r]) <= 1
        /\ (pc[r] = "done") <=> (Len(delivered[r]) = 1)
        /\ (resp[r].kind # "none") => (pc[r] \in {"buffering", "done", "dropped"})
        /\ (pc[r] = "buffering") => CanPoll(r)
        /\ \A i \in 1..Len(delivered[r]) :
              \/ delivered[r][i].kind = "Ok" /\ delivered[r][i].v.tag \in
                    {"Ok", "Created", "Accepted", "NotFound", "InternalServerError", "NotImplemented", "Unregistered"}
              \/ delivered[r][i].kind = "Err" /\ delivered[r][i].v.tag \in
                    {"CanceledSend", "InvalidHttpRequest", "InvalidHttpResponse"}

\* C5 witness: a 200 whose body stream ended has completed
C5_Witness ==
    \E r \in Reqs :
        /\ pc[r] = "done" /\ CleanStream(r) /\ resp[r].status = 200
        /\ nread[r] = Len(resp[r].body) /\ nread[r] > 0 /\ Len(delivered[r]) = 1

\* C6: a transport error completes the request with InvalidHttpResponse
\* carrying the transport's message; nothing is buffered or decoded and no
\* Outcome is produced.
C6_TransportError ==
    \A r \in Reqs :
        (resp[r].kind = "error") =>
            /\ pc[r] = "done"
            /\ delivered[r] = << Err(HError("InvalidHttpResponse", resp[r].msg)) >>
            /\ nread[r] = 0 /\ acc[r] = <<>> /\ decoded[r] = <<>>

\* C6 witness: the transport failed a submitted request
C6_Witness ==
    \E r \in Reqs :
        resp[r].kind = "error" /\ resp[r].msg \in TransportMsgs /\ sent[r] = 1 /\ pc[r] = "done"

\* the pipeline has met the read error of r's body stream
StreamFailed(r) ==
    Responded(r) /\ resp[r].status = 200 /\ resp[r].errAt > 0 /\ nread[r] >= resp[r].errAt

\* C7: a read error of the body stream completes the request with
\* InvalidHttpResponse; no later chunk is consumed, the bytes buffered so far
\* are discarded and the decoder is never invoked.
C7_StreamError ==
    \A r \in Reqs :
        /\ (Responded(r) /\ resp[r].errAt > 0) => (nread[r] <= resp[r].errAt /\ decoded[r] = <<>>)
        /\ StreamFailed(r) =>
            /\ pc[r] = "done"
            /\ Len(delivered[r]) = 1
            /\ delivered[r][1].kind = "Err"
            /\ delivered[r][1].v.tag = "InvalidHttpResponse"
            /\ acc[r] = <<>>

\* C7 witness: the stream failed after a chunk that holds bytes and before
\* another chunk
C7_Witness ==
    \E r \in Reqs :
        /\ StreamFailed(r) /\ pc[r] = "done"
        /\ resp[r].errAt >= 2 /\ resp[r].errAt <= Len(resp[r].body)
        /\ resp[r].body[1] # <<>>

\* the http builder rejected the request of a call of request / request_raw
BuilderRejected(r) ==
    /\ call[r].op \in {"request", "request_raw"}
    /\ call[r].built.kind = "Err"
    /\ (call[r].op = "request" => to_vec(call[r].value).kind = "Ok")

\* C8: when the builder rejects the request in request or request_raw, the
\* call returns InvalidHttpRequest synchronously; the transport is never
\* invoked for it and no future is returned.
C8_BuildFailure ==
    \A r \in Reqs :
        BuilderRejected(r) =>
            /\ pc[r] = "returned_err"
            /\ ret[r] = Err(HError("InvalidHttpRequest", call[r].built.v))
            /\ sent[r] = 0
            /\ resp[r] = NoResp /\ delivered[r] = <<>>

\* C8 witness: request encoded its value and the builder then rejected the
\* request
C8_Witness ==
    \E r \in Reqs :
        /\ BuilderRejected(r) /\ call[r].op = "request" /\ call[r].value = U64Val(10)
        /\ ret[r].kind = "Err"

\* C9 (as claimed): no call returns InvalidHttpResponse synchronously; the
\* error only follows a submission to the transport.
C9_AsClaimed ==
    \A r \in Reqs :
        /\ (ret[r].kind = "Err") => (ret[r].v.tag # "InvalidHttpResponse")
        /\ \A i \in 1..Len(delivered[r]) :
              (delivered[r][i].kind = "Err" /\ delivered[r][i].v.tag = "InvalidHttpResponse") => sent[r] >= 1

\* C10 (as claimed): when the response type is the unit type, a 200 completes
\* with Ok(unit) for every body.
C10_AsClaimed ==
    \A r \in Reqs :
        (pc[r] = "done" /\ CleanStream(r) /\ resp[r].status = 200 /\ call[r].rt = "unit") =>
            delivered[r] = << Ok(Status("Ok", UnitVal, 0)) >>

\* the body type of the value a public operation is called with
BodyOf(c) == IF c.op = "get" THEN UnitBody ELSE JsonBody(c.value)

\* C11 (as claimed): the request built carries the call's method and uri, the
\* content-type tag of the value's type and the value's encoding as its body;
\* for the unit value of get the body is the empty buffer.
C11_AsClaimed ==
    \A r \in Reqs :
        (req[r] # NoReq) =>
            /\ req[r].method = call[r].method
            /\ req[r].uri = call[r].uri
            /\ (call[r].op = "request_raw") => (req[r].body = call[r].raw)
            /\ (call[r].op # "request_raw") =>
                  /\ req[r].content_type = MIME(BodyOf(call[r]))
                  /\ req[r].body = to_bytes(BodyOf(call[r])).v
            /\ (call[r].op = "get") => (req[r].body = <<>>)

OwnResult(c, rs) ==
    IF rs.kind = "error" THEN Err(HError("InvalidHttpResponse", rs.msg))
    ELSE IF rs.status # 200 THEN Ok(FromStatusCode(rs.status))
    ELSE IF rs.errAt # 0 THEN Err(HError("InvalidHttpResponse", rs.msg))
    ELSE LET j == from_slice(c.rt, Concat(rs.body))
         IN  IF j.kind = "Ok" THEN Ok(Status("Ok", j.v, 0)) ELSE Err(HError("InvalidHttpResponse", j.v))

\* C13: requests running concurrently on one HttpClient are independent under
\* every interleaving: a request's result is given by its own call and its own
\* response, its buffer holds its own chunks only, and the client is unchanged.
C13_Independent ==
    /\ client = [connector |-> "HttpConnector"]
    /\ \A r \in DOMAIN pc :
        /\ (pc[r] = "buffering") => (acc[r] = Concat(SubSeq(resp[r].body, 1, nread[r])))
        /\ (pc[r] = "done") => (delivered[r] = << OwnResult(call[r], resp[r]) >>)
        /\ (pc[r] # "done") => (delivered[r] = <<>>)
        /\ decoded[r] \in { <<>>, << Concat(resp[r].body) >> }

\* C13 witness: two requests buffering different chunks at the same time
C13_Witness ==
    /\ DOMAIN pc = {1, 2}
    /\ pc[1] = "buffering" /\ pc[2] = "buffering"
    /\ nread[1] >= 1 /\ nread[2] >= 1
    /\ acc[1] # <<>> /\ acc[2] # <<>> /\ acc[1] # acc[2]

\* some step of the response pipeline of r can be taken
PipelineCanStep(r) ==
    ENABLED (\/ TransportErrorIn(r, ConcDom)
             \/ TransportResponseIn(r, ConcDom)
             \/ BodyChunk(r)
             \/ BodyError(r)
             \/ BodyEnd(r))

HErrorTags == {"CanceledSend", "InvalidHttpRequest", "InvalidHttpResponse"}

\* C15 (as claimed): every failure of get, request and request_raw reaches
\* the caller as an HError value; no operation panics.
C15_AsClaimed ==
    \A r \in Reqs :
        /\ pc[r] # "panicked"
        /\ ret[r].kind # "panic"
        /\ (ret[r].kind = "Err") => (ret[r].v.tag \in HErrorTags)
        /\ \A i \in 1..Len(delivered[r]) :
              (delivered[r][i].kind = "Err") => (delivered[r][i].v.tag \in HErrorTags)

\* C16: within a request no chunk is consumed before the transport resolved
\* with a status, the decoder is invoked at most once and only after the body
\* stream is exhausted, on the whole body and never on a part of it.
C16_Sequential ==
    \A r \in Reqs :
        /\ (nread[r] > 0) => Responded(r)
        /\ (pc[r] = "buffering") => Responded(r)
        /\ Len(decoded[r]) <= 1
        /\ (Len(decoded[r]) = 1) =>
              /\ CleanStream(r)
              /\ nread[r] = Len(resp[r].body)
              /\ decoded[r][1] = WholeBody(r)

\* C16 witness: the decoder ran on a body of several chunks, the last of
\* which holds bytes
C16_Witness ==
    \E r \in Reqs :
        /\ Len(decoded[r]) = 1 /\ Len(resp[r].body) >= 2
        /\ resp[r].body[Len(resp[r].body)] # <<>>
        /\ pc[r] = "done"

\* the chunks r's body stream would still yield
Unread(r) ==
    (IF resp[r].errAt = 0 THEN Len(resp[r].body) ELSE resp[r].errAt - 1) - nread[r]

HasOutcome(r) == Len(delivered[r]) >= 1 /\ delivered[r][1].kind = "Ok"

CallOver(r) == ~ENABLED (Get(r) \/ Request(r) \/ RequestRaw(r))

\* C18: a call hands its request to the transport at most once; after a
\* transport error, a body-stream error or a decode error the request is
\* complete with that error and is never resubmitted.
C18_SingleAttempt ==
    \A r \in Reqs :
        /\ sent[r] <= 1
        /\ (pc[r] # "idle") => CallOver(r)
        /\ (Len(delivered[r]) >= 1 /\ delivered[r][1].kind = "Err") =>
              /\ sent[r] = 1
              /\ pc[r] = "done"
              /\ ~ENABLED (TransportError(r) \/ TransportResponse(r))

\* C18 witness: a 200 whose body did not decode has completed with the error
C18_Witness ==
    \E r \in Reqs :
        /\ pc[r] = "done" /\ CleanStream(r) /\ resp[r].status = 200
        /\ Len(delivered[r]) = 1 /\ delivered[r][1].kind = "Err" /\ sent[r] = 1

====
